---- MODULE Spec2Model ----
(***************************************************************************)
(* State-machine model of the retrieval and knowledge-base caching code of *)
(* the bioagent repository:                                                *)
(*   src/rag/vector_store.py        TargetVectorStore (FAISS)              *)
(*   src/rag/target_discovery.py    TargetDiscoveryRAG (Chroma)            *)
(*   src/rag/target_discovery_bp.py TargetDiscoveryRAG (FAISS, langchain)  *)
(*                                                                         *)
(*   src/validation/esmfold_validator.py  ESMFoldValidator (rate limit)    *)
(*                                                                         *)
(* Spec          : the TargetVectorStore objects and their save directory. *)
(* RagSpec       : the TargetDiscoveryRAG object and its cache directory.  *)
(* CallersSpec   : two concurrent discover_targets calls on one object.    *)
(* ValidatorSpec : one ESMFoldValidator, called sequentially, and a clock. *)
(***************************************************************************)
EXTENDS Integers, Sequences, FiniteSets, TLC

VARIABLES
    store,      \* a TargetVectorStore: [index, documents, embeddings]
    disk,       \* the directory `path`: [index, documents, embeddings]
    ret,        \* the most recent TargetVectorStore call and its outcome
    tieOrder,   \* order the index gives rows of exactly equal score
                \* (fixed by the library build, not by this repository)
    impl,       \* which TargetDiscoveryRAG runs: target_discovery.py
                \* ("chroma") or target_discovery_bp.py ("bp")
    vectorstore,\* self.vectorstore of the TargetDiscoveryRAG
    cache,      \* the knowledge-base cache under cache_dir
    call,       \* the most recent TargetDiscoveryRAG call and its outcome
    pc,         \* where each concurrent caller of discover_targets stands
    local,      \* the local variables of each concurrent caller
    clock,      \* time.time(), in seconds
    last_request_time,  \* ESMFoldValidator.last_request_time
    vpc,        \* where the caller of the ESMFoldValidator stands
    wake,       \* when the pending time.sleep ends
    sent,       \* the times the last two HTTP requests were sent
    queue       \* the sequences batch_validate has still to validate

storeVars == <<store, disk, ret>>
ragVars == <<impl, vectorstore, cache, call>>
callerVars == <<pc, local>>
validatorVars == <<clock, last_request_time, vpc, wake, sent, queue>>
vars == <<store, disk, ret, tieOrder, impl, vectorstore, cache, call,
          pc, local, clock, last_request_time, vpc, wake, sent, queue>>

----------------------------------------------------------------------------
(* Bounds of the model                                                     *)

MaxDocs == 3     \* len(self.documents) never grows beyond this
MaxBatch == 2    \* longest list handed to add_documents
MaxK == 3        \* top_k ranges over 1..MaxK
MaxLoaded == 3   \* most documents one PubMedLoader.load() returns
MaxClock == 150  \* the clock stops here
MaxBatchLen == 2 \* longest list handed to batch_validate

----------------------------------------------------------------------------
(* Python values                                                           *)

\* self.index: None, or an IndexFlatIP holding `rows`
NoIndex == [built |-> FALSE, rows |-> <<>>]
IndexOf(rows) == [built |-> TRUE, rows |-> rows]

\* A file of the save directory: it does not exist, or it holds `data`.
Absent == [file |-> "absent", data |-> <<>>]
File(data) == [file |-> "ok", data |-> data]

Min(a, b) == IF a < b THEN a ELSE b

\* Python list indexing documents[idx] for idx in -len..len-1
PyIndex(list, idx) ==
    IF idx >= 0 THEN list[idx + 1] ELSE list[Len(list) + idx + 1]

----------------------------------------------------------------------------
(* Documents and the embedding model                                       *)

\* the dicts handed to add_documents (title, abstract, pmid)
mock_docs ==
    << [title |-> "HER2 conjugates", abstract |-> "trastuzumab", pmid |-> "2"],
       [title |-> "CTLA-4 therapy", abstract |-> "ipilimumab", pmid |-> "3"] >>

Queries == { "immune checkpoint", "HER2 therapy" }

\* text = f"{doc.get('title', '')} {doc.get('abstract', '')}"
DocText(doc) == doc.title \o " " \o doc.abstract

\* Length of every encoded vector, in model units: normalize_embeddings=True
\* makes every output a unit vector; 1.0 is written 5 so that the
\* components stay integers.
Norm == 5

\* self.model.encode(texts, normalize_embeddings=True), one text
Encode(text) ==
    CASE text = "HER2 conjugates trastuzumab" -> <<4, 3>>
      [] text = "CTLA-4 therapy ipilimumab" -> <<4, 0 - 3>>
      [] text = "immune checkpoint" -> <<5, 0>>
      [] text = "non-small cell lung cancer" -> <<5, 0>>
      [] text = "breast cancer" -> <<4, 0 - 3>>
      [] text = "therapeutic targets for breast cancer treatment mechanism"
            -> <<4, 3>>
      [] text = "HER2 therapy" -> <<0, 5>>
      [] OTHER -> <<3, 4>>

\* the batched encode loop followed by np.vstack: one row per text, in order
EncodeAll(texts) == [i \in 1..Len(texts) |-> Encode(texts[i])]

Dot(u, v) == u[1] * v[1] + u[2] * v[2]

----------------------------------------------------------------------------
(* faiss.IndexFlatIP                                                       *)

\* score FAISS reports in the slots it could not fill (below every product)
PadScore == 0 - (Norm * Norm + 1)

\* row r is ranked before row s
Before(rows, q, r, s) ==
    \/ Dot(rows[r], q) > Dot(rows[s], q)
    \/ /\ Dot(rows[r], q) = Dot(rows[s], q)
       /\ IF tieOrder = "ascending" THEN r < s ELSE r > s

\* 1-based rank of row r
Rank(rows, q, r) ==
    1 + Cardinality({s \in 1..Len(rows) : s # r /\ Before(rows, q, s, r)})

\* index.search(q, k): k (label, score) slots, best first, labels 0-based,
\* label -1 in the slots beyond the number of rows
IndexSearch(rows, q, k) ==
    [p \in 1..k |->
        IF p <= Len(rows)
        THEN LET r == CHOOSE r \in 1..Len(rows) : Rank(rows, q, r) = p
             IN  [idx |-> r - 1, score |-> Dot(rows[r], q)]
        ELSE [idx |-> 0 - 1, score |-> PadScore]]

----------------------------------------------------------------------------
(* TargetVectorStore                                                       *)

\* __init__
FreshStore == [index |-> NoIndex, documents |-> <<>>, embeddings |-> <<>>]

EmptyDir == [index |-> Absent, documents |-> Absent, embeddings |-> Absent]

RECURSIVE MapText(_)
MapText(docs) ==
    IF docs = <<>> THEN <<>>
    ELSE <<DocText(Head(docs))>> \o MapText(Tail(docs))

\* add_documents: the documents are appended to self.documents, the
\* embeddings and the index are rebuilt from the texts of this call only.
\* The encoder itself is taken not to raise; an empty list makes
\* np.vstack raise before anything is assigned.
AddDocumentsFn(st, documents) ==
    LET texts == MapText(documents)
        appended == [st EXCEPT !.documents = st.documents \o documents]
    IN  IF texts = <<>>
        THEN [st |-> appended, exc |-> "ValueError"]    \* np.vstack([])
        ELSE [st |-> [appended EXCEPT !.embeddings = EncodeAll(texts),
                                      !.index = IndexOf(EncodeAll(texts))],
              exc |-> ""]

RECURSIVE Collect(_, _)
\* the loop over zip(indices[0], scores[0])
Collect(hits, documents) ==
    IF hits = <<>> THEN <<>>
    ELSE LET h == Head(hits)
         IN  (IF h.idx < Len(documents)
              THEN <<[doc |-> PyIndex(documents, h.idx), score |-> h.score]>>
              ELSE <<>>) \o Collect(Tail(hits), documents)

\* search
SearchFn(st, query, top_k) ==
    IF ~st.index.built \/ Len(st.documents) = 0
    THEN <<>>
    ELSE Collect(IndexSearch(st.index.rows, Encode(query), top_k),
                 st.documents)

\* The writes of save, in order; each is performed or skipped by its guard.
SaveWrites(st) ==
    (IF st.index.built THEN <<"index">> ELSE <<>>)
    \o <<"documents">>
    \o (IF Len(st.embeddings) > 0 THEN <<"embeddings">> ELSE <<>>)

Artifact(st, name) ==
    CASE name = "index" -> File(st.index.rows)
      [] name = "documents" -> File(st.documents)
      [] name = "embeddings" -> File(st.embeddings)

\* the directory after the first `done` writes of save; a file that save
\* does not write stays as it was
SaveUpTo(st, d, done) ==
    LET w == SaveWrites(st)
    IN  [name \in {"index", "documents", "embeddings"} |->
            IF \E i \in 1..Min(done, Len(w)) : w[i] = name
            THEN Artifact(st, name)
            ELSE d[name]]

\* (mutant) save returns after its first write
SaveFnFirstWriteOnly(st, d) == SaveUpTo(st, d, 1)

\* save, run to completion
SaveFn(st, d) == SaveUpTo(st, d, Len(SaveWrites(st)))

\* load
LoadFn(st, d) ==
    LET s1 == IF d.index # Absent
              THEN [st EXCEPT !.index = IndexOf(d.index.data)]
              ELSE st
    IN  IF d.documents = Absent
        THEN [st |-> s1, exc |-> "FileNotFoundError"]  \* open(documents.pkl)
        ELSE
        LET s2 == [s1 EXCEPT !.documents = d.documents.data]
        IN  IF d.embeddings = Absent
            THEN [st |-> s2, exc |-> ""]
            ELSE [st |-> [s2 EXCEPT !.embeddings = d.embeddings.data],
                  exc |-> ""]

----------------------------------------------------------------------------
(* TargetDiscoveryRAG: documents, loader, embedding, target keywords       *)

\* a langchain Document; page_content is a sequence of words
Document(page_content, metadata) ==
    [page_content |-> page_content, metadata |-> metadata]

\* what PubMed holds for f"{disease} target therapy", in loader order
PubMed(disease) ==
    CASE disease = "lung cancer" ->
           << Document(<<"PD-1", "pembrolizumab">>, [uid |-> "36789012"]),
              Document(<<"chemotherapy">>, [Title |-> "untitled"]),
              Document(<<"EGFR", "osimertinib">>, [uid |-> "35678901"]) >>
      [] disease = "breast cancer" ->
           << Document(<<"HER2", "trastuzumab">>, [uid |-> "23456789"]),
              Document(<<"KRAS", "EGFR">>, [uid |-> "34567890"]),
              Document(<<"surgery">>, [uid |-> "45678901"]) >>
      [] OTHER -> <<>>

\* loader.load(): raises, or returns the first n documents PubMed holds
LoaderFails == [ok |-> FALSE, docs |-> <<>>]
LoaderReturns(docs) == [ok |-> TRUE, docs |-> docs]
LoaderOutcomes(disease) ==
    {LoaderFails} \cup
    { LoaderReturns(SubSeq(PubMed(disease), 1, n)) :
        n \in 0..Min(MaxLoaded, Len(PubMed(disease))) }

\* self.model.encode of a document's page_content
EncodeContent(content) ==
    CASE Head(content) = "PD-1" -> <<5, 0>>
      [] Head(content) = "EGFR" -> <<4, 3>>
      [] Head(content) = "chemotherapy" -> <<3, 4>>
      [] Head(content) = "HER2" -> <<4, 0 - 3>>
      [] Head(content) = "KRAS" -> <<0, 5>>
      [] OTHER -> <<3, 0 - 4>>

\* str.lower() of one word
Lower(word) ==
    CASE word = "PD-1" -> "pd-1"
      [] word = "EGFR" -> "egfr"
      [] word = "HER2" -> "her2"
      [] word = "KRAS" -> "kras"
      [] OTHER -> word

\* keyword in doc.page_content.lower()
Contains(content, keyword) ==
    \E i \in 1..Len(content) : Lower(content[i]) = keyword

\* (mutant) the chain tested from its last branch to its first
TargetGroupsReversed ==
    << [target |-> "KRAS", keywords |-> {"kras", "sotorasib"}],
       [target |-> "HER2", keywords |-> {"her2", "trastuzumab"}],
       [target |-> "EGFR", keywords |-> {"egfr", "osimertinib", "gefitinib"}],
       [target |-> "PD-1", keywords |-> {"pd-1", "pembrolizumab", "nivolumab"}] >>

\* the if/elif chain of discover_targets, in its order
TargetGroups ==
    << [target |-> "PD-1", keywords |-> {"pd-1", "pembrolizumab", "nivolumab"}],
       [target |-> "EGFR", keywords |-> {"egfr", "osimertinib", "gefitinib"}],
       [target |-> "HER2", keywords |-> {"her2", "trastuzumab"}],
       [target |-> "KRAS", keywords |-> {"kras", "sotorasib"}] >>

RECURSIVE FirstMatch(_, _)
FirstMatch(groups, content) ==
    IF groups = <<>> THEN "N/A"
    ELSE IF \E kw \in Head(groups).keywords : Contains(content, kw)
         THEN Head(groups).target
         ELSE FirstMatch(Tail(groups), content)

\* metadata.get(key, default)
Get(metadata, key, default) ==
    IF key \in DOMAIN metadata THEN metadata[key] ELSE default

\* page_content[:n] + "..."
EvidenceLen == 250
EvidenceLenBp == 300
Evidence(content, n) ==
    SubSeq(content, 1, Min(Len(content), n)) \o <<"...">>

\* the dict appended to targets for one search result
TargetEntry(doc) ==
    [target |-> FirstMatch(TargetGroups, doc.page_content),
     evidence |-> Evidence(doc.page_content, EvidenceLen),
     source |-> Get(doc.metadata, "uid", "PubMed")]

\* target_discovery_bp.py: the known targets in the page, upper-cased
known_targets ==
    <<"pd-1", "pd-l1", "ctla-4", "her2", "egfr", "vegf", "parp", "brca">>

Upper(word) ==
    CASE word = "pd-1" -> "PD-1"
      [] word = "pd-l1" -> "PD-L1"
      [] word = "ctla-4" -> "CTLA-4"
      [] word = "her2" -> "HER2"
      [] word = "egfr" -> "EGFR"
      [] word = "vegf" -> "VEGF"
      [] word = "parp" -> "PARP"
      [] word = "brca" -> "BRCA"
      [] OTHER -> word

\* set(candidate_targets); the order of its join is not modelled
CandidateTargets(content) ==
    { Upper(known_targets[i]) :
        i \in {j \in 1..Len(known_targets) : Contains(content, known_targets[j])} }

\* targets of target_discovery_bp.py before the [:3] slice: results without
\* a known target are skipped; i is the 0-based position of the result
RECURSIVE TargetsBp(_, _)
TargetsBp(results, i) ==
    IF results = <<>> THEN <<>>
    ELSE LET doc == Head(results)
         IN  (IF CandidateTargets(doc.page_content) # {}
              THEN <<[target |-> CandidateTargets(doc.page_content),
                      evidence |-> Evidence(doc.page_content, EvidenceLenBp),
                      source |-> Get(doc.metadata, "uid", "PubMed"),
                      relevance_score |-> 10 - i * 2]>>   \* tenths
              ELSE <<>>) \o TargetsBp(Tail(results), i + 1)

Take(list, n) == SubSeq(list, 1, Min(Len(list), n))

----------------------------------------------------------------------------
(* TargetDiscoveryRAG: knowledge base                                      *)

\* entries of the collection: one per added document, in insertion order
Entries(docs) ==
    [i \in 1..Len(docs) |->
        [id |-> i - 1,
         embedding |-> EncodeContent(docs[i].page_content),
         document |-> docs[i].page_content,
         metadata |-> docs[i].metadata]]

\* the k nearest entries as Documents, best first; fewer when the
\* collection holds fewer
SimilaritySearch(entries, q, k) ==
    LET rows == [i \in 1..Len(entries) |-> entries[i].embedding]
    IN  [p \in 1..Min(k, Len(entries)) |->
            LET r == CHOOSE r \in 1..Len(rows) : Rank(rows, q, r) = p
            IN  Document(entries[r].document, entries[r].metadata)]

NoVectorstore == [open |-> FALSE, entries |-> <<>>]
NoCache == [exists |-> FALSE, entries |-> <<>>, diseases |-> <<>>]

MaxTopics == 2
MaxPerTopic == 2

RECURSIVE GatherUnsliced(_, _)
\* (mutant) the loop extends docs by all of disease_docs
GatherUnsliced(diseases, outcome) ==
    IF diseases = <<>> THEN [docs |-> <<>>, invoked |-> <<>>]
    ELSE LET d == Head(diseases)
         IN  IF ~outcome[d].ok
             THEN [docs |-> <<>>, invoked |-> <<d>>]
             ELSE LET rest == GatherUnsliced(Tail(diseases), outcome)
                  IN  [docs |-> outcome[d].docs \o rest.docs,
                       invoked |-> <<d>> \o rest.invoked]

RECURSIVE Gather(_, _)
\* the loop of build_knowledge_base over diseases[:2]: a loader failure
\* leaves the loop
Gather(diseases, outcome) ==
    IF diseases = <<>> THEN [docs |-> <<>>, invoked |-> <<>>]
    ELSE LET d == Head(diseases)
         IN  IF ~outcome[d].ok
             THEN [docs |-> <<>>, invoked |-> <<d>>]            \* break
             ELSE LET rest == Gather(Tail(diseases), outcome)
                  IN  [docs |-> Take(outcome[d].docs, MaxPerTopic) \o rest.docs,
                       invoked |-> <<d>> \o rest.invoked]

RECURSIVE GatherBp(_, _)
\* the loop of target_discovery_bp.py: every disease, a failure propagates
GatherBp(diseases, outcome) ==
    IF diseases = <<>> THEN [docs |-> <<>>, invoked |-> <<>>, failed |-> FALSE]
    ELSE LET d == Head(diseases)
         IN  IF ~outcome[d].ok
             THEN [docs |-> <<>>, invoked |-> <<d>>, failed |-> TRUE]
             ELSE LET rest == GatherBp(Tail(diseases), outcome)
                  IN  [docs |-> outcome[d].docs \o rest.docs,
                       invoked |-> <<d>> \o rest.invoked,
                       failed |-> rest.failed]

\* build_knowledge_base of target_discovery.py.  The Chroma handle reads and
\* writes the database under cache_path; creating it creates chroma.sqlite3.
\* addRaises: whether _collection.add rejects empty lists (library version).
BuildChroma(vs, c, diseases, outcome, addRaises) ==
    IF c.exists
    THEN [vs |-> [open |-> TRUE, entries |-> <<>>], cache |-> c,
          invoked |-> <<>>, fromCache |-> TRUE, exc |-> ""]
    ELSE LET g == Gather(Take(diseases, MaxTopics), outcome)
             created == [exists |-> TRUE, entries |-> <<>>,
                         diseases |-> diseases]
         IN  IF g.docs = <<>> /\ addRaises
             THEN [vs |-> [open |-> TRUE, entries |-> <<>>],
                   cache |-> created,
                   invoked |-> g.invoked, fromCache |-> FALSE,
                   exc |-> "ValueError"]
             ELSE [vs |-> [open |-> TRUE, entries |-> <<>>],
                   cache |-> [created EXCEPT !.entries = Entries(g.docs)],
                   invoked |-> g.invoked, fromCache |-> FALSE, exc |-> ""]

\* build_knowledge_base of target_discovery_bp.py.  FAISS.load_local,
\* FAISS.from_documents and save_local are taken by their langchain
\* contract: from_documents raises on an empty list, save_local creates
\* cache_path.
BuildBp(vs, c, diseases, outcome) ==
    IF c.exists
    THEN [vs |-> [open |-> TRUE, entries |-> c.entries], cache |-> c,
          invoked |-> <<>>, fromCache |-> TRUE, exc |-> ""]
    ELSE LET g == GatherBp(diseases, outcome)
         IN  IF g.failed
             THEN [vs |-> vs, cache |-> c, invoked |-> g.invoked,
                   fromCache |-> FALSE, exc |-> "Exception"]
             ELSE IF g.docs = <<>>
             THEN [vs |-> vs, cache |-> c, invoked |-> g.invoked,
                   fromCache |-> FALSE, exc |-> "IndexError"]
             ELSE [vs |-> [open |-> TRUE, entries |-> Entries(g.docs)],
                   cache |-> [exists |-> TRUE, entries |-> Entries(g.docs),
                              diseases |-> diseases],
                   invoked |-> g.invoked, fromCache |-> FALSE, exc |-> ""]

BuildFn(im, vs, c, diseases, outcome, addRaises) ==
    IF im = "chroma" THEN BuildChroma(vs, c, diseases, outcome, addRaises)
    ELSE BuildBp(vs, c, diseases, outcome)

\* the documents the knowledge base answers from
KbEntries(im, vs, c) == IF im = "chroma" THEN c.entries ELSE vs.entries

DefaultDiseases(im) ==
    IF im = "chroma" THEN <<"lung cancer", "breast cancer">>
    ELSE <<"lung cancer", "breaset_cancer">>

\* the text that is embedded as the query
QueryText(im, disease) ==
    IF im = "chroma" THEN disease
    ELSE "therapeutic targets for " \o disease \o " treatment mechanism"

\* the search results of discover_targets
Results(im, vs, c, disease, top_k) ==
    SimilaritySearch(KbEntries(im, vs, c), Encode(QueryText(im, disease)),
                     top_k)

\* targets[:3] of target_discovery_bp.py
TopTargets == 3

RECURSIVE MapTargetEntry(_)
MapTargetEntry(results) ==
    IF results = <<>> THEN <<>>
    ELSE <<TargetEntry(Head(results))>> \o MapTargetEntry(Tail(results))

\* the targets list of the returned dict
Targets(im, results) ==
    IF im = "chroma" THEN MapTargetEntry(results)
    ELSE Take(TargetsBp(results, 0), TopTargets)

----------------------------------------------------------------------------
(* Operations of Spec                                                      *)

\* the lists handed to add_documents: the runs of mock_docs of length
\* 0..MaxBatch
Batches ==
    { SubSeq(mock_docs, r[1], r[1] + r[2] - 1) :
        r \in { x \in (1..Len(mock_docs)) \X (0..MaxBatch) :
                    x[1] + x[2] - 1 <= Len(mock_docs) } }

\* a call and what it gave back: None, a list, or an exception
\* (query and top_k are the arguments of a search call)
ReturnedNone(op) ==
    [op |-> op, kind |-> "None", exc |-> "", value |-> <<>>,
     query |-> "", top_k |-> 0]
Returned(op, query, top_k, list) ==
    [op |-> op, kind |-> "list", exc |-> "", value |-> list,
     query |-> query, top_k |-> top_k]
Raised(op, e) ==
    [op |-> op, kind |-> "raise", exc |-> e, value |-> <<>>,
     query |-> "", top_k |-> 0]
Outcome(op, exc) == IF exc = "" THEN ReturnedNone(op) ELSE Raised(op, exc)

\* no TargetDiscoveryRAG call yet
NoCall ==
    [op |-> "__init__", diseases |-> <<>>, disease |-> "", top_k |-> 0,
     outcome |-> <<>>, built |-> FALSE, fromCache |-> FALSE,
     invoked |-> <<>>, exc |-> "", targets |-> <<>>]

InitRag ==
    /\ vectorstore = NoVectorstore
    /\ cache = NoCache
    /\ call = NoCall

\* the two threads that call discover_targets on one TargetDiscoveryRAG
Callers == {"caller1", "caller2"}

\* the locals of a caller outside discover_targets: docs of
\* build_knowledge_base, whether it ran the loader loop, the exception that
\* ended the call, and the targets it returned
NoLocal == [docs |-> <<>>, ran |-> FALSE, exc |-> "", targets |-> <<>>]

InitCallers ==
    /\ pc = [t \in Callers |-> "idle"]
    /\ local = [t \in Callers |-> NoLocal]

\* self.min_interval
min_interval == 30

\* ESMFoldValidator(): last_request_time is 0; time.time() is seconds since
\* the epoch, so the clock at construction is beyond min_interval
InitValidator ==
    /\ clock = min_interval
    /\ last_request_time = 0
    /\ vpc = "idle"
    /\ wake = 0
    /\ sent = <<>>
    /\ queue = <<>>

InitStore ==
    /\ store = FreshStore
    /\ disk = EmptyDir
    /\ ret = ReturnedNone("__init__")

Init ==
    /\ InitStore
    /\ tieOrder \in {"ascending", "descending"}
    /\ impl = "chroma"
    /\ InitRag
    /\ InitCallers
    /\ InitValidator

\* store = TargetVectorStore()
Construct ==
    /\ store' = FreshStore
    /\ ret' = ReturnedNone("__init__")
    /\ UNCHANGED <<disk, tieOrder, ragVars, callerVars, validatorVars>>

AddDocuments(documents) ==
    /\ Len(store.documents) + Len(documents) <= MaxDocs
    /\ LET r == AddDocumentsFn(store, documents)
       IN  /\ store' = r.st
           /\ ret' = Outcome("add_documents", r.exc)
    /\ UNCHANGED <<disk, tieOrder, ragVars, callerVars, validatorVars>>

Search(query, top_k) ==
    /\ ret' = Returned("search", query, top_k, SearchFn(store, query, top_k))
    /\ UNCHANGED <<store, disk, tieOrder, ragVars, callerVars, validatorVars>>

Save ==
    /\ disk' = SaveFn(store, disk)
    /\ ret' = ReturnedNone("save")
    /\ UNCHANGED <<store, tieOrder, ragVars, callerVars, validatorVars>>

\* save stopped by a crash or a failed write after `done` complete writes
SaveInterrupted(done) ==
    /\ done < Len(SaveWrites(store))
    /\ disk' = SaveUpTo(store, disk, done)
    /\ ret' = Raised("save", "IOError")
    /\ UNCHANGED <<store, tieOrder, ragVars, callerVars, validatorVars>>

Load ==
    /\ LET r == LoadFn(store, disk)
       IN  /\ store' = r.st
           /\ ret' = Outcome("load", r.exc)
    /\ UNCHANGED <<disk, tieOrder, ragVars, callerVars, validatorVars>>

Next ==
    \/ Construct
    \/ \E b \in Batches : AddDocuments(b)
    \/ \E q \in Queries, k \in 1..MaxK : Search(q, k)
    \/ Save
    \/ \E n \in 0..2 : SaveInterrupted(n)
    \/ Load

Spec == Init /\ [][Next]_vars

----------------------------------------------------------------------------
(* Operations of RagSpec                                                   *)

Range(f) == { f[x] : x \in DOMAIN f }

\* the diseases arguments tried
DiseaseLists ==
    { <<"lung cancer", "breast cancer">>,
      <<"breast cancer", "lung cancer">>,
      <<"breast cancer">>,
      <<"lung cancer", "breast cancer", "melanoma">> }

RagQueries == { "non-small cell lung cancer", "breast cancer", "lung cancer" }

\* one loader outcome for each requested disease
Outcomes(diseases) ==
    { f \in [Range(diseases) ->
                UNION { LoaderOutcomes(d) : d \in Range(diseases) }] :
        \A d \in Range(diseases) : f[d] \in LoaderOutcomes(d) }

\* the loader outcomes of a build with the default diseases
DefaultOutcomes == Outcomes(DefaultDiseases("chroma"))
DefaultOutcomesBp == Outcomes(DefaultDiseases("bp"))

\* the diseases arguments tried, each with the loader outcomes it can meet
BuildInputs ==
    UNION { { [diseases |-> ds, outcome |-> o] : o \in Outcomes(ds) } :
              ds \in DiseaseLists }

\* rag = TargetDiscoveryRAG(): a new object over the same cache_dir
RagConstruct ==
    /\ vectorstore' = NoVectorstore
    /\ call' = NoCall
    /\ UNCHANGED <<cache, impl, tieOrder, storeVars, callerVars,
                     validatorVars>>

BuildStep(diseases, outcome, addRaises) ==
    LET b == BuildFn(impl, vectorstore, cache, diseases, outcome, addRaises)
    IN  /\ vectorstore' = b.vs
        /\ cache' = b.cache
        /\ call' = [op |-> "build_knowledge_base", diseases |-> diseases,
                    disease |-> "", top_k |-> 0,
                    outcome |-> IF b.fromCache THEN <<>> ELSE outcome,
                    built |-> TRUE, fromCache |-> b.fromCache,
                    invoked |-> b.invoked, exc |-> b.exc, targets |-> <<>>]
        /\ UNCHANGED <<impl, tieOrder, storeVars, callerVars,
                     validatorVars>>

\* discover_targets: builds with the default diseases when self.vectorstore
\* is None, then searches and maps the results
DiscoverStep(disease, top_k, outcome, addRaises) ==
    LET build == ~vectorstore.open
        diseases == DefaultDiseases(impl)
        b == IF build
             THEN BuildFn(impl, vectorstore, cache, diseases, outcome,
                          addRaises)
             ELSE [vs |-> vectorstore, cache |-> cache, invoked |-> <<>>,
                   fromCache |-> FALSE, exc |-> ""]
    IN  /\ vectorstore' = b.vs
        /\ cache' = b.cache
        /\ call' = [op |-> "discover_targets",
                    diseases |-> IF build THEN diseases ELSE <<>>,
                    disease |-> disease, top_k |-> top_k,
                    outcome |-> IF build /\ ~b.fromCache THEN outcome ELSE <<>>,
                    built |-> build, fromCache |-> b.fromCache,
                    invoked |-> b.invoked, exc |-> b.exc,
                    targets |-> IF b.exc # "" THEN <<>>
                                ELSE Targets(impl, Results(impl, b.vs, b.cache,
                                                           disease, top_k))]
        /\ UNCHANGED <<impl, tieOrder, storeVars, callerVars,
                     validatorVars>>

\* A call that finds the knowledge base or the cache reaches neither the
\* loader nor _collection.add: what they would do is then not varied.
Unread(diseases, outcome, addRaises) ==
    /\ outcome = [d \in Range(diseases) |-> LoaderFails]
    /\ ~addRaises

\* target_discovery.py
BuildKnowledgeBase(diseases, outcome, addRaises) ==
    /\ impl = "chroma"
    /\ cache.exists => Unread(diseases, outcome, addRaises)
    /\ BuildStep(diseases, outcome, addRaises)

DiscoverTargets(disease, top_k, outcome, addRaises) ==
    /\ impl = "chroma"
    /\ (vectorstore.open \/ cache.exists)
          => Unread(DefaultDiseases(impl), outcome, addRaises)
    /\ DiscoverStep(disease, top_k, outcome, addRaises)

\* target_discovery_bp.py
BuildKnowledgeBaseBp(diseases, outcome) ==
    /\ impl = "bp"
    /\ cache.exists => Unread(diseases, outcome, FALSE)
    /\ BuildStep(diseases, outcome, FALSE)

DiscoverTargetsBp(disease, top_k, outcome) ==
    /\ impl = "bp"
    /\ (vectorstore.open \/ cache.exists)
          => Unread(DefaultDiseases(impl), outcome, FALSE)
    /\ DiscoverStep(disease, top_k, outcome, FALSE)

RagInit ==
    /\ InitStore
    /\ tieOrder \in {"ascending", "descending"}
    /\ impl \in {"chroma", "bp"}
    /\ InitRag
    /\ InitCallers
    /\ InitValidator

RagNext ==
    \/ RagConstruct
    \/ \E b \in BuildInputs, a \in BOOLEAN :
          BuildKnowledgeBase(b.diseases, b.outcome, a)
    \/ \E d \in RagQueries, k \in 1..MaxK, o \in DefaultOutcomes,
          a \in BOOLEAN :
          DiscoverTargets(d, k, o, a)
    \/ \E b \in BuildInputs : BuildKnowledgeBaseBp(b.diseases, b.outcome)
    \/ \E d \in RagQueries, k \in 1..MaxK, o \in DefaultOutcomesBp :
          DiscoverTargetsBp(d, k, o)

RagSpec == RagInit /\ [][RagNext]_vars

----------------------------------------------------------------------------
(* Operations of CallersSpec: discover_targets of target_discovery.py run  *)
(* by two threads on one object, one step per statement that reads or      *)
(* writes self.vectorstore, the cache directory or the collection.  The    *)
(* code takes no lock.                                                     *)

\* ids of the collection's entries
Ids(entries) == { entries[i].id : i \in 1..Len(entries) }

\* _collection.add on a collection that skips ids it already holds
AddSkipExisting(entries, new) ==
    entries \o SelectSeq(new, LAMBDA e : e.id \notin Ids(entries))

\* what the steps of a caller leave alone
callerFrame == <<impl, call, tieOrder, storeVars, validatorVars>>

\* line 83: if self.vectorstore is None
Enter(t) ==
    /\ pc[t] = "idle"
    /\ pc' = [pc EXCEPT ![t] = IF vectorstore.open THEN "search" ELSE "build"]
    /\ local' = [local EXCEPT ![t] = NoLocal]
    /\ UNCHANGED <<vectorstore, cache, callerFrame>>

\* lines 24-33: the cache check, and the load when chroma.sqlite3 exists
CheckCache(t) ==
    /\ pc[t] = "build"
    /\ IF cache.exists
       THEN /\ vectorstore' = [open |-> TRUE, entries |-> <<>>]
            /\ pc' = [pc EXCEPT ![t] = "search"]
       ELSE /\ pc' = [pc EXCEPT ![t] = "load"]
            /\ UNCHANGED vectorstore
    /\ UNCHANGED <<cache, local, callerFrame>>

\* lines 36-63: the loader loop and the embedding of the texts
LoadCorpus(t, outcome) ==
    /\ pc[t] = "load"
    /\ local' = [local EXCEPT
                   ![t].docs = Gather(Take(DefaultDiseases("chroma"), MaxTopics),
                                      outcome).docs,
                   ![t].ran = TRUE]
    /\ pc' = [pc EXCEPT ![t] = "assign"]
    /\ UNCHANGED <<vectorstore, cache, callerFrame>>

\* lines 66-69: self.vectorstore = Chroma(persist_directory=cache_path);
\* the handle opens the database there, creating it when there is none
AssignVectorstore(t) ==
    /\ pc[t] = "assign"
    /\ vectorstore' = [open |-> TRUE, entries |-> <<>>]
    /\ cache' = IF cache.exists THEN cache
                ELSE [exists |-> TRUE, entries |-> <<>>,
                      diseases |-> DefaultDiseases("chroma")]
    /\ pc' = [pc EXCEPT ![t] = "add"]
    /\ UNCHANGED <<local, callerFrame>>

\* lines 72-78: _collection.add with ids doc_0.. and persist().  rejects:
\* whether this library version raises on an empty list or on an id the
\* collection already holds (otherwise such entries are skipped).
AddToCollection(t, rejects) ==
    /\ pc[t] = "add"
    /\ LET new == Entries(local[t].docs)
           clash == Ids(new) \cap Ids(cache.entries) # {}
       IN  IF rejects /\ (new = <<>> \/ clash)
           THEN /\ local' = [local EXCEPT ![t].exc =
                                IF new = <<>> THEN "ValueError"
                                ELSE "DuplicateIDError"]
                /\ pc' = [pc EXCEPT ![t] = "done"]
                /\ UNCHANGED cache
           ELSE /\ cache' = [cache EXCEPT
                               !.entries = AddSkipExisting(cache.entries, new)]
                /\ pc' = [pc EXCEPT ![t] = "search"]
                /\ UNCHANGED local
    /\ UNCHANGED <<vectorstore, callerFrame>>

\* lines 87-117: the query embedding, the search and the targets
SearchKnowledgeBase(t, disease, top_k) ==
    /\ pc[t] = "search"
    /\ local' = [local EXCEPT ![t].targets =
                    Targets("chroma", Results("chroma", vectorstore, cache,
                                              disease, top_k))]
    /\ pc' = [pc EXCEPT ![t] = "done"]
    /\ UNCHANGED <<vectorstore, cache, callerFrame>>

\* the caller has its result and may call again
Return(t) ==
    /\ pc[t] = "done"
    /\ pc' = [pc EXCEPT ![t] = "idle"]
    /\ local' = [local EXCEPT ![t] = NoLocal]
    /\ UNCHANGED <<vectorstore, cache, callerFrame>>

\* discover_targets(disease, top_k=3)
DefaultTopK == 3

CallersInit ==
    /\ InitStore
    /\ tieOrder \in {"ascending", "descending"}
    /\ impl = "chroma"
    /\ InitRag
    /\ InitCallers
    /\ InitValidator

CallersNext ==
    \/ \E t \in Callers : Enter(t)
    \/ \E t \in Callers : CheckCache(t)
    \/ \E t \in Callers : \E o \in DefaultOutcomes : LoadCorpus(t, o)
    \/ \E t \in Callers : AssignVectorstore(t)
    \/ \E t \in Callers : \E r \in BOOLEAN : AddToCollection(t, r)
    \/ \E t \in Callers : \E d \in RagQueries :
          SearchKnowledgeBase(t, d, DefaultTopK)
    \/ \E t \in Callers : Return(t)

CallersSpec == CallersInit /\ [][CallersNext]_vars

----------------------------------------------------------------------------
(* Operations of ValidatorSpec: one ESMFoldValidator called by one thread, *)
(* and the clock time.time() reads.  Time passes between the steps.        *)

\* seconds the clock advances in one step of the model
TickStep == 10

\* timeout=60 of requests.post
timeout == 60

valid_aas ==
    {"A", "C", "D", "E", "F", "G", "H", "I", "K", "L",
     "M", "N", "P", "Q", "R", "S", "T", "V", "W", "Y"}

\* _clean_sequence
CleanSequence(sequence) == SelectSeq(sequence, LAMBDA aa : aa \in valid_aas)

\* the sequences handed to predict_structure
TestSequences == { <<"M", "K", "X">>, <<"X">> }

\* the lists handed to batch_validate
TestBatches ==
    UNION { [1..n -> TestSequences] : n \in 1..MaxBatchLen }

\* what the steps of the validator leave alone
validatorFrame == <<tieOrder, storeVars, ragVars, callerVars>>

\* lines 55-57: a sequence that is empty after cleaning returns at once
Begin(sequence) ==
    vpc' = IF Len(CleanSequence(sequence)) = 0 THEN "idle" ELSE "limit"

\* predict_structure(sequence), called directly
PredictStructure(sequence) ==
    /\ vpc = "idle"
    /\ queue = <<>>
    /\ Begin(sequence)
    /\ UNCHANGED <<clock, last_request_time, wake, sent, queue,
                   validatorFrame>>

\* batch_validate(sequences): the loop is entered
BatchValidate(sequences) ==
    /\ vpc = "idle"
    /\ queue = <<>>
    /\ queue' = sequences
    /\ UNCHANGED <<clock, last_request_time, vpc, wake, sent, validatorFrame>>

\* batch_validate: predict_structure for the next sequence of the loop
BatchNext ==
    /\ vpc = "idle"
    /\ queue # <<>>
    /\ Begin(Head(queue))
    /\ queue' = Tail(queue)
    /\ UNCHANGED <<clock, last_request_time, wake, sent, validatorFrame>>

\* _enforce_rate_limit, lines 30-34: elapsed is computed and the sleep begun
EnforceRateLimit ==
    /\ vpc = "limit"
    /\ LET elapsed == clock - last_request_time
       IN  IF elapsed < min_interval
           THEN /\ wake' = clock + (min_interval - elapsed)
                /\ vpc' = "sleep"
           ELSE /\ vpc' = "stamp"
                /\ UNCHANGED wake
    /\ UNCHANGED <<clock, last_request_time, sent, queue, validatorFrame>>

\* time.sleep(wait_time) returns, not before wait_time has passed
WakeUp ==
    /\ vpc = "sleep"
    /\ clock >= wake
    /\ vpc' = "stamp"
    /\ UNCHANGED <<clock, last_request_time, wake, sent, queue,
                   validatorFrame>>

\* line 35: self.last_request_time = time.time()
Stamp ==
    /\ vpc = "stamp"
    /\ last_request_time' = clock
    /\ vpc' = "post"
    /\ UNCHANGED <<clock, wake, sent, queue, validatorFrame>>

\* lines 66-71: requests.post has connected and sends the request
SendRequest ==
    /\ vpc = "post"
    /\ sent' = (IF Len(sent) < 2 THEN sent ELSE Tail(sent))
                  \o <<[at |-> clock, outcome |-> "pending"]>>
    /\ vpc' = "inflight"
    /\ UNCHANGED <<clock, last_request_time, wake, queue, validatorFrame>>

\* requests.post raises before the request is sent (no connection)
ConnectFails ==
    /\ vpc = "post"
    /\ vpc' = "idle"
    /\ UNCHANGED <<clock, last_request_time, wake, sent, queue,
                   validatorFrame>>

\* lines 72-97: the response, an error status or a timeout ends the call
Respond(outcome) ==
    /\ vpc = "inflight"
    /\ sent' = [sent EXCEPT ![Len(sent)].outcome = outcome]
    /\ vpc' = "idle"
    /\ UNCHANGED <<clock, last_request_time, wake, queue, validatorFrame>>

\* time passes; a request does not stay unanswered beyond its timeout
Tick ==
    /\ clock + TickStep <= MaxClock
    /\ vpc = "inflight" => clock + TickStep - sent[Len(sent)].at <= timeout
    /\ clock' = clock + TickStep
    /\ UNCHANGED <<last_request_time, vpc, wake, sent, queue, validatorFrame>>

ValidatorInit ==
    /\ InitStore
    /\ tieOrder = "ascending"
    /\ impl = "chroma"
    /\ InitRag
    /\ InitCallers
    /\ InitValidator

ValidatorNext ==
    \/ \E s \in TestSequences : PredictStructure(s)
    \/ \E b \in TestBatches : BatchValidate(b)
    \/ BatchNext
    \/ EnforceRateLimit
    \/ WakeUp
    \/ Stamp
    \/ SendRequest
    \/ ConnectFails
    \/ \E o \in {"success", "failure"} : Respond(o)
    \/ Tick

ValidatorSpec == ValidatorInit /\ [][ValidatorNext]_vars

----------------------------------------------------------------------------
(* Properties of TargetVectorStore (checked under Spec)                    *)

\* the store's documents and index rows are aligned
Aligned(st) ==
    /\ Len(st.index.rows) = Len(st.documents)
    /\ \A i \in 1..Len(st.documents) :
          st.index.rows[i] = Encode(DocText(st.documents[i]))

\* C1: after a successful add_documents, save or load the number of stored
\* documents equals the number of index rows, and index row i is the
\* embedding of document i.
C1_RowAlignment ==
    (ret.op \in {"add_documents", "save", "load"} /\ ret.kind # "raise")
        => Aligned(store)

\* the last call was a search on an aligned store of n >= 1 rows
SearchedAligned ==
    /\ ret.op = "search"
    /\ store.index.built
    /\ Len(store.index.rows) >= 1
    /\ Aligned(store)

\* number of results whose document is d
Occurrences(results, d) ==
    Cardinality({i \in 1..Len(results) : results[i].doc = d})

\* C2: on an index of n >= 1 vectors search(query, k) returns exactly
\* min(k, n) results, and when k > n every one of the n documents appears
\* exactly once (nothing is returned for a slot the index did not fill).
C2_SearchCount ==
    SearchedAligned =>
        LET n == Len(store.index.rows)
        IN  /\ Len(ret.value) = Min(ret.top_k, n)
            /\ ret.top_k > n =>
                  \A i \in 1..n :
                     Occurrences(ret.value, store.documents[i]) =
                     Cardinality({j \in 1..n :
                                    store.documents[j] = store.documents[i]})

\* brute-force reference: rows by descending score, equal scores by
\* ascending row id, the first min(k, n) of them
RefRank(rows, q, r) ==
    1 + Cardinality({s \in 1..Len(rows) :
            \/ Dot(rows[s], q) > Dot(rows[r], q)
            \/ Dot(rows[s], q) = Dot(rows[r], q) /\ s < r})

RefSearch(st, query, k) ==
    LET rows == st.index.rows
        q == Encode(query)
    IN  [p \in 1..Min(k, Len(rows)) |->
            LET r == CHOOSE r \in 1..Len(rows) : RefRank(rows, q, r) = p
            IN  [doc |-> st.documents[r], score |-> Dot(rows[r], q)]]

\* C3: search(query, k) returns the k rows of highest inner product, scores
\* non-increasing, equal scores in ascending row order: the result equals
\* the brute-force reference.
C3_SearchIsBruteForce ==
    SearchedAligned => ret.value = RefSearch(store, ret.query, ret.top_k)

\* what a fresh store holds after save(path) of this store and load(path)
RoundTrip == LoadFn(FreshStore, SaveFn(store, disk))

C9_InterruptedSaveIsAtomic ==
    [][(ret'.op = "save" /\ ret'.kind = "raise")
          => (disk' = disk \/ disk' = SaveFn(store, disk))]_vars

----------------------------------------------------------------------------
(* Properties of TargetDiscoveryRAG (checked under RagSpec)                *)

\* the last call ran the build of target_discovery.py past its cache check
BuiltChroma == impl = "chroma" /\ call.built /\ ~call.fromCache

\* the loader returned at least one document for disease d
Succeeded(d) == call.outcome[d].ok /\ Len(call.outcome[d].docs) >= 1

\* C4: a build for 2 topics in which the loader fails for exactly one of
\* them and returns at least one document for the other reaches the ready
\* state, and the knowledge base holds exactly the documents taken from the
\* successful topic.
C4_PartialCorpusTolerated ==
    \A good, bad \in Range(call.diseases) :
        ( /\ BuiltChroma
          /\ Len(call.diseases) = 2
          /\ good # bad
          /\ ~call.outcome[bad].ok
          /\ Succeeded(good) )
        => /\ call.exc = ""
           /\ vectorstore.open
           /\ KbEntries(impl, vectorstore, cache) =
                 Entries(Take(call.outcome[good].docs, MaxPerTopic))

\* C5: a build in which every topic's loader call fails or returns no
\* document fails with EmptyCorpusError and writes no cache file.
C5_EmptyCorpusRejected ==
    ( /\ BuiltChroma
      /\ \A d \in Range(call.diseases) : ~Succeeded(d) )
    => (call.exc = "EmptyCorpusError" /\ ~cache.exists)

\* C6: a ready knowledge base holds at least one document, a cache that a
\* later run would load holds at least one document, and a build that
\* failed leaves the knowledge base absent.
C6_ReadyMeansNonEmpty ==
    impl = "chroma" =>
        /\ vectorstore.open => Len(KbEntries(impl, vectorstore, cache)) >= 1
        /\ cache.exists => Len(cache.entries) >= 1
        /\ (call.built /\ call.exc # "") => ~vectorstore.open

\* C7: build_knowledge_base(topics) loads the persisted bundle, without
\* invoking the corpus loader, exactly when a bundle persisted for the
\* requested topics exists (the embedding model is the same in every run).
C7_LoadsOnlyMatchingCache ==
    [][call'.built =>
         ((call'.fromCache /\ call'.invoked = <<>>)
            <=> (cache.exists /\ cache.diseases = call'.diseases))]_vars

\* the evidence and source discover_targets reports for a search result
EvidenceOf(im, doc) ==
    Evidence(doc.page_content,
             IF im = "chroma" THEN EvidenceLen ELSE EvidenceLenBp)

\* C10: the targets list returned by discover_targets has exactly one entry
\* per search result, in the order of the ranked results.
C10_OneTargetPerHit ==
    (call.op = "discover_targets" /\ call.exc = "") =>
        LET hits == Results(impl, vectorstore, cache, call.disease, call.top_k)
        IN  /\ Len(call.targets) = Len(hits)
            /\ \A i \in 1..Len(hits) :
                  /\ call.targets[i].evidence = EvidenceOf(impl, hits[i])
                  /\ call.targets[i].source =
                        Get(hits[i].metadata, "uid", "PubMed")

----------------------------------------------------------------------------
(* Error handling and frame of TargetVectorStore (checked under Spec)      *)

\* a directory that holds part of a bundle: an artifact is there but the
\* index or the document list is missing, or their row counts disagree
Corrupt(d) ==
    /\ \E name \in DOMAIN d : d[name] # Absent
    /\ \/ d.index = Absent
       \/ d.documents = Absent
       \/ Len(d.index.data) # Len(d.documents.data)

\* C11: a load from a corrupt directory (a missing artifact, or index and
\* document row counts that disagree) lets no file error reach the caller
\* and leaves no inconsistent bundle in the store.
C11_CorruptCacheTreatedAsAbsent ==
    (ret.op = "load" /\ Corrupt(disk)) =>
        /\ ret.exc # "FileNotFoundError"
        /\ Len(store.index.rows) = Len(store.documents)

\* C12: search on a store whose index has zero rows fails with
\* EmptyIndexError instead of returning a result.
C12_EmptyIndexError ==
    (ret.op = "search" /\ Len(store.index.rows) = 0) =>
        (ret.kind = "raise" /\ ret.exc = "EmptyIndexError")

\* what a fresh store holds after load(path) of the directory as it is
Reloaded == LoadFn(FreshStore, disk).st

\* C18: right after a complete save(path) of a store, a load(path) into a
\* fresh store returns the index, documents and embeddings of that store
\* and nothing an earlier save left in the directory.
C18_LoadReturnsOnlyLastSave ==
    (ret.op = "save" /\ ret.kind = "None") =>
        /\ Reloaded.index = store.index
        /\ Reloaded.documents = store.documents
        /\ Reloaded.embeddings = store.embeddings

----------------------------------------------------------------------------
(* Labels and build limits of target_discovery.py (checked under RagSpec)  *)

\* the last call was a discover_targets of target_discovery.py that returned
Discovered == impl = "chroma" /\ call.op = "discover_targets" /\ call.exc = ""

\* the search results that call mapped to its targets
Hits == Results(impl, vectorstore, cache, call.disease, call.top_k)

\* the fixed order of the labels
LabelOrder == <<"PD-1", "EGFR", "HER2", "KRAS">>

\* the positions in LabelOrder of the groups with a keyword in the content
MatchingGroups(content) ==
    { j \in 1..Len(LabelOrder) :
        \E g \in Range(TargetGroups) :
            /\ g.target = LabelOrder[j]
            /\ \E kw \in g.keywords : Contains(content, kw) }

\* C15: the target label of a hit is the label of the first group, in the
\* order PD-1, EGFR, HER2, KRAS, with a keyword in the lowercased document
\* text, and "N/A" when no group matches.
C15_FirstGroupLabel ==
    Discovered =>
        /\ Len(call.targets) = Len(Hits)
        /\ \A i \in 1..Len(Hits) :
              LET m == MatchingGroups(Hits[i].page_content)
              IN  call.targets[i].target =
                     IF m = {} THEN "N/A"
                     ELSE LabelOrder[CHOOSE j \in m : \A l \in m : j <= l]

\* C15 witness: one call labelled a document matching the KRAS and the EGFR
\* group "EGFR" and a document matching no group "N/A"
C15_Witness ==
    /\ Discovered
    /\ Len(call.targets) = Len(Hits)
    /\ \E i \in 1..Len(Hits) :
          /\ MatchingGroups(Hits[i].page_content) = {2, 4}
          /\ call.targets[i].target = "EGFR"
    /\ \E i \in 1..Len(Hits) :
          /\ MatchingGroups(Hits[i].page_content) = {}
          /\ call.targets[i].target = "N/A"

\* the first two documents the loader returned for the i-th invoked topic
FirstTwoOf(i) ==
    LET docs == call.outcome[call.invoked[i]].docs
    IN  SubSeq(docs, 1, IF Len(docs) < 2 THEN Len(docs) ELSE 2)

\* topic order, then loader order
TopicThenLoaderOrder ==
    IF Len(call.invoked) = 0 THEN <<>>
    ELSE IF Len(call.invoked) = 1 THEN FirstTwoOf(1)
    ELSE FirstTwoOf(1) \o FirstTwoOf(2)

\* C16: a build invokes the loader for at most the first 2 requested
\* topics, in the order given, and ingests at most the first 2 documents of
\* each, so the knowledge base it built holds at most 4 documents, in topic
\* order then loader order.
C16_BuildLimits ==
    BuiltChroma =>
        /\ Len(call.invoked) <= 2
        /\ Len(call.invoked) <= Len(call.diseases)
        /\ \A i \in 1..Len(call.invoked) : call.invoked[i] = call.diseases[i]
        /\ Len(cache.entries) <= 4
        /\ cache.entries = Entries(TopicThenLoaderOrder)

\* C16 witness: a build for 3 topics whose loader returned 3 documents for
\* each of the first two, which ended with both invoked and 4 documents held
C16_Witness ==
    /\ BuiltChroma
    /\ Len(call.diseases) = 3
    /\ call.invoked = SubSeq(call.diseases, 1, 2)
    /\ \A i \in 1..2 : Len(call.outcome[call.invoked[i]].docs) = 3
    /\ Len(cache.entries) = 4
    /\ cache.entries = Entries(TopicThenLoaderOrder)

----------------------------------------------------------------------------
(* Concurrent callers of discover_targets (checked under CallersSpec)      *)

\* caller u is inside a build that has gathered documents and not yet
\* added them to the collection
Adding(u) == pc[u] = "add" /\ local[u].docs # <<>>

\* C13: no discover_targets call runs its search while a build has
\* documents still to insert: the knowledge base is visible as ready only
\* after every document of the build has been added.
C13_NoSearchDuringBuild ==
    [][\A t \in Callers :
          (pc[t] = "search" /\ pc'[t] = "done")
             => \A u \in Callers \ {t} : ~Adding(u)]_vars

\* the callers that ran the loader loop of a build
Builders == { t \in Callers : local[t].ran }

\* C14: when two concurrent calls both found the knowledge base absent and
\* both have ended, either only one of them built, or the collection is
\* exactly what one single build of the two added.
C14_OneBuildWins ==
    (\A t \in Callers : pc[t] = "done")
       => \/ Cardinality(Builders) <= 1
          \/ \E t \in Builders : cache.entries = Entries(local[t].docs)

----------------------------------------------------------------------------
(* Rate limit of ESMFoldValidator (checked under ValidatorSpec)            *)

\* C17: any two successive HTTP requests of one validator are sent at
\* least min_interval seconds apart, whether the earlier one succeeded or
\* failed.
C17_RequestsSpaced ==
    Len(sent) = 2 => sent[2].at - sent[1].at >= min_interval

====
